---- MODULE Spec2Model ----
(***************************************************************************)
(* Model of src/app.py: one run of the stock analyser script.  The script  *)
(* is a straight line of steps; pc names the step that runs next.          *)
(*                                                                         *)
(* Numbers.  Prices and volumes are integers (prices in half units, so     *)
(* 100.5 is 201).  A value that pandas may hold as NaN is a fraction       *)
(* [n, d]: d > 0 is the number n/d, d = 0 is NaN.  Arithmetic is exact.    *)
(***************************************************************************)
EXTENDS Integers, Sequences, FiniteSets

VARIABLES pc, ticker, data, macd_df, macd_available, obv_available,
          sentiment, sentiment_label, latest_close, latest_sma,
          suggestion, ui

vars == <<pc, ticker, data, macd_df, macd_available, obv_available,
          sentiment, sentiment_label, latest_close, latest_sma,
          suggestion, ui>>

(* ------------------------------ bounds --------------------------------- *)

\* longest constant run of bars in front of the free bars of a table
PadMax == 20
\* number of free bars at the end of a table
MaxTail == 2

(* ------------------------- program constants --------------------------- *)

Window == 20
ThresholdDen == 100
PosCut == 10
NegCut == -10

Periods == {"1mo", "3mo", "6mo", "1y", "2y"}
Intervals == {"1d", "1wk", "1mo"}

MacdCols == {"MACD_Line", "MACD_Signal", "MACD_Hist"}

(* ----------------------------- fractions ------------------------------- *)

NaN == [n |-> 0, d |-> 0]
Rat(a, b) == [n |-> a, d |-> b]
notna(x) == x.d # 0
RatSub(x, y) == [n |-> x.n * y.d - y.n * x.d, d |-> x.d * y.d]
RatMul(x, y) == [n |-> x.n * y.n, d |-> x.d * y.d]
RatNeg(x) == [n |-> -x.n, d |-> x.d]
\* a comparison with NaN is false, as in IEEE arithmetic
RatGt(x, y) == x.d # 0 /\ y.d # 0 /\ x.n * y.d > y.n * x.d
RatLt(x, y) == RatGt(y, x)

(* ------------------------------ the table ------------------------------ *)

\* data.cols: the column labels; data.n: the number of rows; data.Close,
\* data.Volume, data.SMA20, data.OBV: the columns' values (<<>> when the
\* column is absent)
NoFrame == [cols |-> {}, n |-> 0, Close |-> <<>>, Volume |-> <<>>,
            SMA20 |-> <<>>, OBV |-> <<>>]

\* DataFrame.empty: some axis has length 0
IsEmpty(df) == df.n = 0 \/ df.cols = {}

RECURSIVE SumRange(_, _, _)
SumRange(s, lo, hi) == IF lo > hi THEN 0 ELSE s[lo] + SumRange(s, lo + 1, hi)

RollingEarly(s, w) ==
    [i \in 1..Len(s) |-> IF i < w - 1 THEN NaN
                         ELSE Rat(SumRange(s, IF i < w THEN 1 ELSE i - w + 1, i), w)]

\* Series.rolling(window=w).mean(): min_periods defaults to the window
Rolling(s, w) ==
    [i \in 1..Len(s) |-> IF i < w THEN NaN ELSE Rat(SumRange(s, i - w + 1, i), w)]

(* -------------------------------- OBV ---------------------------------- *)

ObvStepSwapped(prev, cPrev, cCur, vCur) ==
    IF cCur > cPrev THEN prev - vCur
    ELSE IF cCur < cPrev THEN prev + vCur
    ELSE prev

\* one iteration of the loop: the value appended to obv
ObvStep(prev, cPrev, cCur, vCur) ==
    IF cCur > cPrev THEN prev + vCur
    ELSE IF cCur < cPrev THEN prev - vCur
    ELSE prev

RECURSIVE ObvLoop(_, _, _, _)
ObvLoop(close, volume, i, acc) ==
    IF i > Len(close) THEN acc
    ELSE ObvLoop(close, volume, i + 1,
                 Append(acc, ObvStep(acc[Len(acc)], close[i - 1], close[i], volume[i])))

ComputeObv(close, volume) == ObvLoop(close, volume, 2, <<0>>)

\* where the try block can raise, and the message the exception carries
ObvFaults == {"none", "read", "loop", "attach"}
ExcMsg(f) == CASE f = "read" -> "values unavailable"
               [] f = "loop" -> "unsupported operand"
               [] f = "attach" -> "length mismatch"
               [] OTHER -> ""

ObvAvailableEarly(f) == f \in {"none", "attach"}

\* obv_available = True is the last statement of the try block
ObvAvailableAfter(f) == f = "none"

(* ------------------------------ MACD ----------------------------------- *)

\* what ta.macd may hand back
MacdResults == {"None", "empty", "frame"}

MacdUsableNotNone(m) == m # "None"

\* macd_df is not None and not macd_df.empty
MacdUsable(m) == m # "None" /\ m # "empty"

(* ---------------------------- sentiment -------------------------------- *)

\* Stand-in for TextBlob(ticker).sentiment.polarity, in hundredths: a fixed
\* lexicon lookup over the ticker text.
Tickers == {"AAPL", "GOOD", "BAD", "EDGEUP", "EDGEDOWN"}
Polarity(t) == CASE t = "GOOD" -> 70
                 [] t = "BAD" -> -70
                 [] t = "EDGEUP" -> 10
                 [] t = "EDGEDOWN" -> -10
                 [] OTHER -> 0

SentimentLabelInclusive(p) ==
    IF p >= PosCut THEN "Positive"
    ELSE IF p <= NegCut THEN "Negative"
    ELSE "Neutral"

SentimentLabel(p) ==
    IF p > PosCut THEN "Positive"
    ELSE IF p < NegCut THEN "Negative"
    ELSE "Neutral"

(* ------------------------------ signal --------------------------------- *)

NotEnough == "Not enough data for suggestion"

SignalInclusive(close, sma) ==
    IF notna(sma)
    THEN LET diff == RatSub(Rat(close, 1), sma)
             threshold == RatMul(sma, Rat(1, ThresholdDen))
         IN  IF ~RatLt(diff, threshold) THEN <<"BUY", "green">>
             ELSE IF RatLt(diff, RatNeg(threshold)) THEN <<"SELL", "red">>
             ELSE <<"HOLD", "gray">>
    ELSE <<NotEnough, "orange">>

Signal(close, sma) ==
    IF notna(sma)
    THEN LET diff == RatSub(Rat(close, 1), sma)
             threshold == RatMul(sma, Rat(1, ThresholdDen))
         IN  IF RatGt(diff, threshold) THEN <<"BUY", "green">>
             ELSE IF RatLt(diff, RatNeg(threshold)) THEN <<"SELL", "red">>
             ELSE <<"HOLD", "gray">>
    ELSE <<NotEnough, "orange">>

\* the panel drawn for a suggestion
Panel(s) == IF s[1] = "BUY" THEN "panel:BUY"
            ELSE IF s[1] = "SELL" THEN "panel:SELL"
            ELSE "panel:HOLD"

(* --------------------------- input tables ------------------------------ *)

BaseCloses == {-200, 200}
PadVolume == 5
TailBars == {[c |-> 220, v |-> 3], [c |-> 180, v |-> 7], [c |-> 200, v |-> 3],
             [c |-> -200, v |-> 7]}
Tails(m) == UNION {[1..k -> TailBars] : k \in 0..m}
ColumnSets == {{"Close", "Volume"}, {"Close"}, {"Volume"}, {}}

\* k bars closing at b, then the bars of t, under the columns cols
Frame(k, b, t, cols) ==
    [cols |-> cols, n |-> k + Len(t),
     Close |-> IF "Close" \in cols
               THEN [i \in 1..(k + Len(t)) |-> IF i <= k THEN b ELSE t[i - k].c]
               ELSE <<>>,
     Volume |-> IF "Volume" \in cols
                THEN [i \in 1..(k + Len(t)) |-> IF i <= k THEN PadVolume ELSE t[i - k].v]
                ELSE <<>>,
     SMA20 |-> <<>>, OBV |-> <<>>]

AllFrames == {Frame(k, b, t, cols) :
                 k \in 0..PadMax, b \in BaseCloses, t \in Tails(MaxTail),
                 cols \in {{"Close", "Volume"}}}

RunPads == {0, 1, Window - 1, Window}
RunFrames == {Frame(k, b, t, cols) :
                 k \in RunPads, b \in BaseCloses, t \in Tails(1),
                 cols \in ColumnSets}

(* ------------------------------- steps --------------------------------- *)

Init ==
    /\ pc = "download"
    /\ ticker = "AAPL"
    /\ data = NoFrame
    /\ macd_df = "unset"
    /\ macd_available = FALSE
    /\ obv_available = FALSE
    /\ sentiment = 0
    /\ sentiment_label = ""
    /\ latest_close = 0
    /\ latest_sma = NaN
    /\ suggestion = <<"", "">>
    /\ ui = {}

DownloadNoStop ==
    /\ pc = "download"
    /\ \E t \in Tickers, p \in Periods, iv \in Intervals, resp \in RunFrames :
          /\ ticker' = t
          /\ data' = resp
          /\ ui' = IF IsEmpty(resp)
                   THEN ui \cup {"error:No data found. Please check the ticker symbol."}
                   ELSE ui
          /\ pc' = "indicators"
    /\ UNCHANGED <<macd_df, macd_available, obv_available, sentiment,
                   sentiment_label, latest_close, latest_sma, suggestion>>

\* lines 15-23: the sidebar inputs, the download, the empty check
Download ==
    /\ pc = "download"
    /\ \E t \in Tickers, p \in Periods, iv \in Intervals, resp \in RunFrames :
          /\ ticker' = t
          /\ data' = resp
          /\ IF IsEmpty(resp)
             THEN /\ ui' = ui \cup {"error:No data found. Please check the ticker symbol."}
                  /\ pc' = "stopped"
             ELSE /\ ui' = ui
                  /\ pc' = "indicators"
    /\ UNCHANGED <<macd_df, macd_available, obv_available, sentiment,
                   sentiment_label, latest_close, latest_sma, suggestion>>

\* lines 26-27: SMA20 and RSI; data['Close'] raises KeyError without the column
Indicators ==
    /\ pc = "indicators"
    /\ IF "Close" \in data.cols
       THEN /\ data' = [data EXCEPT !.SMA20 = Rolling(data.Close, Window),
                                    !.cols = @ \cup {"SMA20", "RSI"}]
            /\ pc' = "macd"
       ELSE /\ data' = data
            /\ pc' = "crashed"
    /\ UNCHANGED <<ticker, macd_df, macd_available, obv_available, sentiment,
                   sentiment_label, latest_close, latest_sma, suggestion, ui>>

\* lines 30-36
Macd ==
    /\ pc = "macd"
    /\ \E m \in MacdResults :
          /\ macd_df' = m
          /\ IF MacdUsable(m)
             THEN /\ data' = [data EXCEPT !.cols = @ \cup MacdCols]
                  /\ macd_available' = TRUE
             ELSE /\ data' = data
                  /\ macd_available' = FALSE
    /\ pc' = "obv"
    /\ UNCHANGED <<ticker, obv_available, sentiment, sentiment_label,
                   latest_close, latest_sma, suggestion, ui>>

\* lines 39-59
Obv ==
    /\ pc = "obv"
    /\ IF "Close" \in data.cols /\ "Volume" \in data.cols
       THEN \E f \in ObvFaults :
               /\ data' = IF f = "none"
                          THEN [data EXCEPT !.OBV = ComputeObv(data.Close, data.Volume),
                                            !.cols = @ \cup {"OBV"}]
                          ELSE data
               /\ obv_available' = ObvAvailableAfter(f)
               /\ ui' = IF f = "none" THEN ui
                        ELSE ui \cup {"warning:OBV could not be computed: " \o ExcMsg(f)}
       ELSE /\ data' = data
            /\ obv_available' = FALSE
            /\ ui' = ui \cup {"warning:Required columns for OBV calculation missing."}
    /\ pc' = "sentiment"
    /\ UNCHANGED <<ticker, macd_df, macd_available, sentiment, sentiment_label,
                   latest_close, latest_sma, suggestion>>

\* lines 62-68
Sentiment ==
    /\ pc = "sentiment"
    /\ sentiment' = Polarity(ticker)
    /\ sentiment_label' = SentimentLabel(Polarity(ticker))
    /\ pc' = "latest"
    /\ UNCHANGED <<ticker, data, macd_df, macd_available, obv_available,
                   latest_close, latest_sma, suggestion, ui>>

\* lines 71-72
Latest ==
    /\ pc = "latest"
    /\ latest_close' = data.Close[data.n]
    /\ latest_sma' = data.SMA20[data.n]
    /\ pc' = "suggest"
    /\ UNCHANGED <<ticker, data, macd_df, macd_available, obv_available,
                   sentiment, sentiment_label, suggestion, ui>>

\* lines 73-83
Suggest ==
    /\ pc = "suggest"
    /\ suggestion' = Signal(latest_close, latest_sma)
    /\ pc' = "col1"
    /\ UNCHANGED <<ticker, data, macd_df, macd_available, obv_available,
                   sentiment, sentiment_label, latest_close, latest_sma, ui>>

\* lines 88-150: the price chart and the suggestion panel
Col1 ==
    /\ pc = "col1"
    /\ ui' = ui \cup {"chart:Close+SMA20", Panel(suggestion)}
    /\ pc' = "col2"
    /\ UNCHANGED <<ticker, data, macd_df, macd_available, obv_available,
                   sentiment, sentiment_label, latest_close, latest_sma,
                   suggestion>>

\* lines 152-186: the RSI, MACD and OBV charts
Col2 ==
    /\ pc = "col2"
    /\ ui' = ui \cup {"chart:RSI"}
                \cup (IF macd_available THEN {"chart:MACD"}
                      ELSE {"warning:MACD data not available or failed to compute."})
                \cup (IF obv_available THEN {"chart:OBV"}
                      ELSE {"warning:OBV data not available or failed to compute."})
    /\ pc' = "footer"
    /\ UNCHANGED <<ticker, data, macd_df, macd_available, obv_available,
                   sentiment, sentiment_label, latest_close, latest_sma,
                   suggestion>>

\* lines 188-195
Footer ==
    /\ pc = "footer"
    /\ ui' = ui \cup {"sentiment:" \o sentiment_label}
    /\ pc' = "done"
    /\ UNCHANGED <<ticker, data, macd_df, macd_available, obv_available,
                   sentiment, sentiment_label, latest_close, latest_sma,
                   suggestion>>

Next == \/ Download \/ Indicators \/ Macd \/ Obv \/ Sentiment \/ Latest
        \/ Suggest \/ Col1 \/ Col2 \/ Footer

Spec == Init /\ [][Next]_vars

(* ------------------- the indicator steps on their own ------------------ *)

\* the table is any bar table with both columns; the indicator steps run on it
InitIndicators ==
    /\ pc = "indicators"
    /\ ticker = "AAPL"
    /\ data \in {f \in AllFrames : ~IsEmpty(f)}
    /\ macd_df = "unset"
    /\ macd_available = FALSE
    /\ obv_available = FALSE
    /\ sentiment = 0
    /\ sentiment_label = ""
    /\ latest_close = 0
    /\ latest_sma = NaN
    /\ suggestion = <<"", "">>
    /\ ui = {}

NextIndicators == Indicators \/ Macd \/ Obv

SpecIndicators == InitIndicators /\ [][NextIndicators]_vars

(* --------------------- the signal rule on its own ---------------------- *)

SignalCloses == {-220, -202, -200, -198, -180, -1, 0, 1, 180, 197, 198, 199,
                 200, 201, 202, 203, 220}
SignalSmas == {NaN, Rat(-200, 1), Rat(0, 1), Rat(200, 1), Rat(4020, Window),
               Rat(-3980, Window)}

InitSignal ==
    /\ pc = "suggest"
    /\ ticker = "AAPL"
    /\ data = NoFrame
    /\ macd_df = "unset"
    /\ macd_available = FALSE
    /\ obv_available = FALSE
    /\ sentiment = 0
    /\ sentiment_label = ""
    /\ latest_close \in SignalCloses
    /\ latest_sma \in SignalSmas
    /\ suggestion = <<"", "">>
    /\ ui = {}

NextSignal == Suggest \/ Col1

SpecSignal == InitSignal /\ [][NextSignal]_vars

(* ------------------------------ properties ----------------------------- *)

\* the order of the script's steps; Ran(s): step s has run in this run
StepOrder == <<"download", "indicators", "macd", "obv", "sentiment", "latest",
               "suggest", "col1", "col2", "footer", "done">>
Ran(s) == \E i, j \in 1..Len(StepOrder) :
             i < j /\ StepOrder[i] = s /\ StepOrder[j] = pc

Abs(x) == IF x < 0 THEN -x ELSE x

RECURSIVE Prefix(_, _)
Prefix(s, k) == IF k = 0 THEN 0 ELSE Prefix(s, k - 1) + s[k]

ErrorNoData == "error:No data found. Please check the ticker symbol."
WarnObvColumns == "warning:Required columns for OBV calculation missing."
WarnObvChart == "warning:OBV data not available or failed to compute."
WarnMacdChart == "warning:MACD data not available or failed to compute."
ObvExceptionWarnings ==
    {"warning:OBV could not be computed: " \o m :
        m \in {"values unavailable", "unsupported operand", "length mismatch"}}

\* C1: when OBV was computed, the series has one value per bar, starts at 0,
\* and each later value adds the bar's volume on a higher close, subtracts it
\* on a lower close and repeats the previous value on an equal close.
C1_ObvRecurrence ==
    (Ran("obv") /\ obv_available) =>
        /\ Len(data.OBV) = data.n
        /\ data.OBV[1] = 0
        /\ \A i \in 2..data.n :
              /\ data.Close[i] > data.Close[i - 1]
                    => data.OBV[i] = data.OBV[i - 1] + data.Volume[i]
              /\ data.Close[i] < data.Close[i - 1]
                    => data.OBV[i] = data.OBV[i - 1] - data.Volume[i]
              /\ data.Close[i] = data.Close[i - 1]
                    => data.OBV[i] = data.OBV[i - 1]

C1_Witness ==
    /\ Ran("obv") /\ obv_available
    /\ data.n > Window
    /\ data.Close[data.n - 1] > data.Close[data.n - 2]
    /\ data.Close[data.n] < data.Close[data.n - 1]
    /\ data.OBV[data.n] = data.Volume[data.n - 1] - data.Volume[data.n]
    /\ data.OBV[data.n] # 0

\* C2: the suggestion is INSUFFICIENT_DATA when the latest SMA20 is NaN, and
\* otherwise BUY when close - sma > sma/100, SELL when close - sma < -sma/100,
\* HOLD in every other case.
C2_SignalRule ==
    Ran("suggest") =>
        LET c == latest_close
            s == latest_sma
            \* (close - sma) and sma / 100, both multiplied by 100 * s.d
            diff100 == 100 * (c * s.d - s.n)
            thr100 == s.n
        IN  /\ suggestion[1] \in {"BUY", "SELL", "HOLD", NotEnough}
            /\ s.d = 0 => suggestion[1] = NotEnough
            /\ (s.d > 0 /\ diff100 > thr100) => suggestion[1] = "BUY"
            /\ (s.d > 0 /\ ~(diff100 > thr100) /\ diff100 < -thr100)
                  => suggestion[1] = "SELL"
            /\ (s.d > 0 /\ ~(diff100 > thr100) /\ ~(diff100 < -thr100))
                  => suggestion[1] = "HOLD"
            /\ (c = 220 /\ s = Rat(200, 1)) => suggestion[1] = "BUY"
            /\ (c = 201 /\ s = Rat(200, 1)) => suggestion[1] = "HOLD"
            /\ (c = 180 /\ s = Rat(200, 1)) => suggestion[1] = "SELL"

C2_Witness ==
    /\ Ran("suggest")
    /\ latest_close = 201 /\ latest_sma = Rat(200, 1)
    /\ suggestion[1] = "HOLD"

\* C3: SMA20 has a value at a bar exactly when at least 20 bars lie at or
\* before it, and the value is the mean of the 20 closes ending at that bar;
\* 20 identical closes C give C at the 20th bar.
C3_Sma20Window ==
    Ran("indicators") =>
        /\ Len(data.SMA20) = data.n
        /\ \A i \in 1..data.n :
              /\ notna(data.SMA20[i]) <=> i >= 20
              /\ notna(data.SMA20[i]) =>
                    data.SMA20[i].n * 20 =
                       data.SMA20[i].d * (Prefix(data.Close, i) - Prefix(data.Close, i - 20))
        /\ data.n < 20 => \A i \in 1..data.n : data.SMA20[i] = NaN
        /\ (data.n >= 20 /\ \A i \in 1..20 : data.Close[i] = data.Close[1])
              => data.SMA20[20].n = data.Close[1] * data.SMA20[20].d

C3_Witness ==
    /\ Ran("indicators")
    /\ data.n = 21
    /\ data.Close[20] # data.Close[1] /\ data.Close[21] # data.Close[20]
    /\ ~notna(data.SMA20[19])
    /\ notna(data.SMA20[20]) /\ notna(data.SMA20[21])
    /\ data.SMA20[21].n # data.SMA20[20].n

\* C4: after an empty response the run has shown the error and stopped, and
\* nothing else was computed or drawn.
C4_EmptyStops ==
    (pc # "download" /\ (data.n = 0 \/ data.cols \cap {"Close", "Volume"} = {})) =>
        /\ pc = "stopped"
        /\ ui = {ErrorNoData}
        /\ data.cols \cap ({"SMA20", "RSI", "OBV"} \cup MacdCols) = {}
        /\ data.SMA20 = <<>> /\ data.OBV = <<>>
        /\ macd_df = "unset" /\ ~macd_available /\ ~obv_available
        /\ sentiment_label = ""
        /\ suggestion = <<"", "">>

C4_Witness ==
    /\ pc = "stopped"
    /\ data.n > 0 /\ data.cols = {}
    /\ ErrorNoData \in ui

\* C5: with a non-empty table that lacks the Close or the Volume column the
\* run does not abort: OBV stays unavailable, the warning is shown, and the
\* run goes on.
C5_MissingColumnNonFatal ==
    (pc # "download" /\ data.n > 0 /\ data.cols # {}
        /\ ("Close" \notin data.cols \/ "Volume" \notin data.cols)) =>
        /\ pc # "crashed"
        /\ ~obv_available
        /\ Ran("obv") => WarnObvColumns \in ui

\* C6: when the MACD computation returns nothing, MACD is unavailable, no
\* MACD column is attached or plotted, the warning replaces the chart, and
\* OBV, sentiment and the signal are what the inputs alone determine.
C6_MacdNonFatal ==
    (macd_df \in {"None", "empty"}) =>
        /\ ~macd_available
        /\ data.cols \cap MacdCols = {}
        /\ "chart:MACD" \notin ui
        /\ Ran("col2") => WarnMacdChart \in ui
        /\ pc \notin {"stopped", "crashed"}
        /\ (Ran("obv") /\ obv_available) =>
              /\ Len(data.OBV) = data.n
              /\ data.OBV[data.n] = ComputeObv(data.Close, data.Volume)[data.n]
        /\ (Ran("obv") /\ "Volume" \notin data.cols) => ~obv_available
        /\ Ran("sentiment") => sentiment_label = SentimentLabel(Polarity(ticker))
        /\ Ran("suggest") =>
              suggestion = Signal(data.Close[data.n], Rolling(data.Close, Window)[data.n])

C6_Witness ==
    /\ pc = "done"
    /\ macd_df = "empty"
    /\ WarnMacdChart \in ui
    /\ obv_available
    /\ suggestion[1] = "BUY"

\* C7: an exception in the OBV computation leaves a warning with its message,
\* OBV unavailable and undrawn, and the run going; OBV is available only with
\* the whole series attached.
C7_ObvExceptionCaught ==
    /\ obv_available => ("OBV" \in data.cols /\ Len(data.OBV) = data.n)
    /\ (ui \cap ObvExceptionWarnings # {}) =>
          /\ ~obv_available
          /\ "OBV" \notin data.cols
          /\ "chart:OBV" \notin ui
          /\ pc \notin {"stopped", "crashed"}
          /\ Ran("col2") => WarnObvChart \in ui
          /\ Ran("sentiment") => sentiment_label # ""
          /\ Ran("suggest") => suggestion[1] # ""

C7_Witness ==
    /\ pc = "done"
    /\ "warning:OBV could not be computed: length mismatch" \in ui
    /\ ~obv_available
    /\ WarnObvChart \in ui

\* C8: the sentiment label depends on the ticker alone: it is Positive above
\* 0.1, Negative below -0.1 and Neutral otherwise, 0.1 and -0.1 included.
C8_SentimentOfTicker ==
    Ran("sentiment") =>
        /\ sentiment \in -100..100
        /\ sentiment_label = "Positive" <=> sentiment > 10
        /\ sentiment_label = "Negative" <=> sentiment < -10
        /\ sentiment_label = "Neutral" <=> (sentiment >= -10 /\ sentiment <= 10)
        /\ <<sentiment, sentiment_label>> =
              CASE ticker = "AAPL" -> <<0, "Neutral">>
                [] ticker = "GOOD" -> <<70, "Positive">>
                [] ticker = "BAD" -> <<-70, "Negative">>
                [] ticker = "EDGEUP" -> <<10, "Neutral">>
                [] ticker = "EDGEDOWN" -> <<-10, "Neutral">>

C8_Witness ==
    /\ pc = "done"
    /\ ticker = "EDGEUP"
    /\ sentiment = 10
    /\ sentiment_label = "Neutral"
    /\ data.n < Window

\* C9: the panel drawn is the one of the suggestion: BUY for BUY, SELL for
\* SELL, HOLD for HOLD only.
C9_PanelMatchesSignal ==
    Ran("col1") =>
        /\ "panel:BUY" \in ui <=> suggestion[1] = "BUY"
        /\ "panel:SELL" \in ui <=> suggestion[1] = "SELL"
        /\ "panel:HOLD" \in ui <=> suggestion[1] = "HOLD"

\* C10: for every SMA20 that has a value the suggestion is HOLD exactly when
\* |close - sma| is at most 1% of |sma|.
C10_SymmetricBand ==
    (Ran("suggest") /\ notna(latest_sma)) =>
        /\ suggestion[1] = "HOLD" <=>
              Abs(100 * (latest_close * latest_sma.d - latest_sma.n)) <= Abs(latest_sma.n)
        /\ latest_close * latest_sma.d = latest_sma.n => suggestion[1] = "HOLD"

====
